---- MODULE Spec2Model ----
(***************************************************************************)
(* The sileo toast store (src/toast.tsx): the global store, the toast API  *)
(* (create, update through promise, dismiss, clear), the exit-removal      *)
(* timers, and the Toaster viewport that subscribes to the store and       *)
(* drives the per-toast dismiss timers and the hover pause.                *)
(*                                                                         *)
(* Time is logical: every pending timer holds the milliseconds it has left, *)
(* Tick takes TimeStep off each, and a timer that has none left fires      *)
(* before time moves on.                                                   *)
(* A store emit, the Toaster's re-render and its timer effect are one      *)
(* step (React flushes them before any timer of the model can fire).       *)
(*                                                                         *)
(* The Sileo widget (src/sileo.tsx) is modelled on its own, under          *)
(* SpecSileo: one widget whose props are set by its parent, with its       *)
(* state, refs, effects, handlers and timers.                              *)
(***************************************************************************)
EXTENDS Integers, Sequences, FiniteSets, TLC

(* ------------------------------ constants ------------------------------ *)

DEFAULT_DURATION == 6000
EXIT_DURATION == (DEFAULT_DURATION * 1) \div 10
AUTO_EXPAND_DELAY == (DEFAULT_DURATION * 25) \div 1000
AUTO_COLLAPSE_DELAY == DEFAULT_DURATION - 2000

(* ------------------------------- bounds -------------------------------- *)

\* generateId is called at most MaxIdCounter times
MaxIdCounter == 3

\* the widget's refreshKey prop takes at most MaxRefreshKey values
MaxRefreshKey == 3

TimeStep == EXIT_DURATION \div 2

(* --------------------------- values of options -------------------------- *)

\* a JS value that is undefined, null or a number
Undef == [tag |-> "undefined", val |-> 0]
Null == [tag |-> "null", val |-> 0]
Num(n) == [tag |-> "number", val |-> n]

\* x ?? d
Coalesce(x, d) == IF x.tag = "number" THEN x ELSE d

\* {...a, ...b} for one key: b's value when b has the key
Spread(a, b) == IF b.tag = "undefined" THEN a ELSE b

\* the absent id, and the ids a caller may pass explicitly
NoId == 0
ExplicitIds == {101}

\* durations a caller passes: absent, null ("persistent"), 0, and a positive one
DurationInputs == {Undef, Null, Num(0), Num(EXIT_DURATION)}

\* positions a caller passes ("undefined": absent)
PositionInputs == {"undefined"}

\* positions clear is called with ("undefined": no argument)
ClearInputs == {"undefined", "top-right"}

\* the options prop of the Toaster: none, or a default duration
ToasterOptionInputs == {[duration |-> Undef], [duration |-> Num(EXIT_DURATION)]}

VARIABLES
    toasts,        \* store.toasts
    listeners,     \* store.listeners
    storePosition, \* store.position
    storeOptions,  \* store.options
    idCounter,     \* idCounter
    exitTimers,    \* pending setTimeout handles of dismissToast: [id, left]
    mounted,       \* a Toaster is mounted
    hoverRef,      \* Toaster hoverRef.current
    timersRef,     \* Toaster timersRef.current: [id, instanceId, left, pending]
    listRef,       \* Toaster toasts state / listRef.current
    pointerOver,   \* id of the widget under the pointer, NoId when none
    activeId,      \* Toaster activeId state, NoId when undefined
    latestRef,     \* Toaster latestRef.current, NoId when undefined
    promises,      \* promise() calls whose promise is pending
    lastOp,        \* history: the step taken last
    emitted,       \* history: the calls store.emit() made in the last step: for every
                   \* listener called, the sequences it was called with
    dismissed,     \* history: effective dismiss calls not followed by a create or
                   \* clear, each with the time elapsed since: [id, elapsed]
    quiet,         \* history: the record of the last create and its age, while the
                   \* Toaster is mounted and unhovered and nothing else is called
    ranBeforeHover, \* history: the instances whose dismiss timer had run in part when
                   \* the last mouse-enter cleared it
    sileo,         \* the Sileo widget: its props, state and refs
    sileoHist      \* history: the widget's last step, the expanded height it had
                   \* when the pending payload was staged, and whether a payload
                   \* was pending when the last step began

vars == <<toasts, listeners, storePosition, storeOptions, idCounter, exitTimers,
          mounted, hoverRef, timersRef, listRef, pointerOver, activeId, latestRef,
          promises,
          lastOp, emitted, dismissed, quiet, ranBeforeHover, sileo, sileoHist>>

\* the store and the Toaster
storeVars == <<toasts, listeners, storePosition, storeOptions, idCounter, exitTimers,
               mounted, hoverRef, timersRef, listRef, pointerOver, activeId, latestRef,
               promises, lastOp, emitted, dismissed, quiet, ranBeforeHover>>

\* the widget
sileoVars == <<sileo, sileoHist>>

(* -------------------------------- helpers ------------------------------- *)

Ids(s) == {s[i].id : i \in 1..Len(s)}

\* Array.prototype.find on the id: index of the first record with the id, 0 when none
FindIndex(s, id) ==
    IF \E i \in 1..Len(s) : s[i].id = id
    THEN CHOOSE i \in 1..Len(s) : s[i].id = id /\ \A j \in 1..(i - 1) : s[j].id # id
    ELSE 0

Live(s) == SelectSeq(s, LAMBDA t : ~t.exiting)

\* Array.prototype.filter dropping the records with the id
WithoutId(s, id) == SelectSeq(s, LAMBDA t : t.id # id)

timeoutKey(t) == <<t.id, t.instanceId>>

\* item.duration ?? DEFAULT_DURATION, the delay of the dismiss timer of a record
FullDuration(t) == Coalesce(t.duration, Num(DEFAULT_DURATION)).val

\* history: a step and what it was called with: the id it acted on, the id passed
\* (NoId: none), whether the call found the record it looks up, the length of the
\* store before it, whether a settled promise call had opts.action, and how the
\* promises of a settled promise call ended (NoSettle: no promise settled)
NoOutcome == [kind |-> "none", value |-> 0]
NoSettle == [input |-> NoOutcome, chain |-> NoOutcome, returned |-> NoOutcome]

OpCall(name, id, given, hit, action) ==
    [op |-> name, id |-> id, given |-> given, hit |-> hit, before |-> Len(toasts),
     action |-> action, settle |-> NoSettle]

Op(name, id) == OpCall(name, id, NoId, FALSE, FALSE)

(* ------------------------------ generateId ------------------------------ *)

\* generateId(): `${++idCounter}-...`; two ids differ as their counter parts do, so
\* the id is modelled by the counter part
generateId(counter) == counter + 1

(* ---------------------------- resolveAutopilot --------------------------- *)

\* the autopilot option: absent, false, or an object of delay overrides
AutoUndef == [kind |-> "undefined", expand |-> Undef, collapse |-> Undef]
AutoFalse == [kind |-> "false", expand |-> Undef, collapse |-> Undef]
AutoObject(e, c) == [kind |-> "object", expand |-> e, collapse |-> c]

AutopilotInputs == {AutoUndef}

Min(a, b) == IF a < b THEN a ELSE b
Max(a, b) == IF a > b THEN a ELSE b

NoDelays == [expandDelayMs |-> Undef, collapseDelayMs |-> Undef]

resolveAutopilot(autopilot, duration) ==
    IF autopilot.kind = "false" \/ duration.tag # "number" \/ duration.val = 0
       \/ duration.val <= 0
    THEN NoDelays
    ELSE LET cfg == IF autopilot.kind = "object" THEN autopilot ELSE AutoUndef
             clamp(v) == Min(duration.val, Max(0, v))
         IN [expandDelayMs |-> Num(clamp(Coalesce(cfg.expand, Num(AUTO_EXPAND_DELAY)).val)),
             collapseDelayMs |-> Num(clamp(Coalesce(cfg.collapse, Num(AUTO_COLLAPSE_DELAY)).val))]

(* ------------------------- building a ToastItem -------------------------- *)

\* {...store.options, ...options}: the caller's options over the Toaster's defaults
MergeOptions(options) ==
    [options EXCEPT !.duration = Spread(storeOptions.duration, options.duration)]

\* the item of createToast / updateToast from the merged options
ToastItem(merged, id, instanceId, prevPosition) ==
    LET duration == Coalesce(merged.duration, Num(DEFAULT_DURATION))
        auto == resolveAutopilot(merged.autopilot, duration)
    IN [id |-> id,
        instanceId |-> instanceId,
        exiting |-> FALSE,
        state |-> merged.state,
        duration |-> merged.duration,
        position |-> IF merged.position # "undefined" THEN merged.position
                     ELSE IF prevPosition # "undefined" THEN prevPosition
                     ELSE storePosition,
        autopilot |-> merged.autopilot,
        autoExpandDelayMs |-> auto.expandDelayMs,
        autoCollapseDelayMs |-> auto.collapseDelayMs]

(* --------------------------- Toaster: timers ----------------------------- *)

\* the timer effect's cleanup: timers whose key is no toast's key are cleared
CleanTimers(timers, items) ==
    {t \in timers : \E i \in 1..Len(items) : timeoutKey(items[i]) = <<t.id, t.instanceId>>}

\* the loop of schedule(items): a dismiss timer of the full duration for every
\* non-exiting item that has no handle in the map and whose duration is positive
ScheduleItems(timers, items) ==
    timers \cup
    {[id |-> items[i].id, instanceId |-> items[i].instanceId,
      left |-> FullDuration(items[i]),
      pending |-> TRUE] :
       i \in {j \in 1..Len(items) :
                /\ ~items[j].exiting
                /\ ~\E t \in timers : <<t.id, t.instanceId>> = timeoutKey(items[j])
                /\ LET dur == Coalesce(items[j].duration, Num(DEFAULT_DURATION))
                   IN ~(dur.tag = "null" \/ dur.val <= 0)}}

\* faulty variant of schedule: the hover flag is not looked at
scheduleWhileHovered(timers, items, hover) == ScheduleItems(timers, items)

\* schedule(items): nothing while hovered
schedule(timers, items, hover) ==
    IF hover THEN timers ELSE ScheduleItems(timers, items)

\* the timer effect, run after every render with a new toasts array
TimerEffect(timers, items, hover) ==
    schedule(CleanTimers(timers, items), items, hover)

(* ----------------------- Toaster: the active toast ------------------------ *)

\* the latest memo: the id of the last non-exiting toast, NoId (undefined) when none
latest(items) ==
    IF Live(items) = <<>> THEN NoId ELSE Live(items)[Len(Live(items))].id

\* faulty variant of ActiveAfterRender: the effect on latest leaves activeId alone
ActiveAfterRenderKept(active, prevItems, items) == active

\* activeId after a render with a new toasts array: the effect on latest runs when
\* latest differs from that of the render before, and sets activeId to it
ActiveAfterRender(active, prevItems, items) ==
    IF latest(items) # latest(prevItems) THEN latest(items) ELSE active

\* the canExpand prop the Toaster gives the widget of an item
canExpand(active, item) == active = NoId \/ active = item.id

(* ------------------------------ store.update ----------------------------- *)

\* faulty variant of emit: the listeners get the sequence of before the update
emitBeforeUpdate(subscribers, prev, next) == [l \in subscribers |-> <<prev>>]

\* store.emit() at the end of store.update: every listener is called once with
\* this.toasts, which by then is the new sequence
emit(subscribers, prev, next) == [l \in subscribers |-> <<next>>]

\* store.update(fn): the new sequence is stored and emitted; the mounted Toaster's
\* listener sets its state, it re-renders and its timer effect runs; a widget
\* that is no longer rendered is no longer under the pointer
StoreUpdate(next, timers) ==
    LET calls == emit(listeners, toasts, next)
    IN /\ toasts' = next
       /\ emitted' = calls
       /\ IF "Toaster" \in DOMAIN calls
          THEN LET seen == calls["Toaster"][Len(calls["Toaster"])]
               IN /\ listRef' = seen
                  /\ timersRef' = TimerEffect(timers, seen, hoverRef)
                  /\ pointerOver' = IF pointerOver \in Ids(seen) THEN pointerOver ELSE NoId
                  /\ latestRef' = latest(seen)
                  /\ activeId' = ActiveAfterRender(activeId, listRef, seen)
          ELSE /\ listRef' = listRef
               /\ timersRef' = timers
               /\ pointerOver' = pointerOver
               /\ UNCHANGED <<activeId, latestRef>>

\* no store.update in this step
NoStoreUpdate(timers) ==
    /\ toasts' = toasts
    /\ emitted' = <<>>
    /\ listRef' = listRef
    /\ timersRef' = timers
    /\ pointerOver' = pointerOver
    /\ UNCHANGED <<activeId, latestRef>>

\* history: no quiet record
NotQuiet == [id |-> NoId, instanceId |-> 0, duration |-> 0, age |-> 0]

(* -------------------------------- the API -------------------------------- *)

Options(id, duration, position, state, autopilot) ==
    [id |-> id, duration |-> duration, position |-> position, state |-> state,
     autopilot |-> autopilot]

\* createToast: the record it looks up, prev, as an index of the live records
\* (0: none): the live record of the id when an id is given, else the last live one
PrevIndex(live, id) ==
    IF id # NoId THEN FindIndex(live, id) ELSE Len(live)

\* how many times createToast calls generateId
IdsNeeded(options) ==
    IF options.id = NoId /\ PrevIndex(Live(toasts), NoId) = 0 THEN 2 ELSE 1

\* faulty variant of CreateId: the id of the last live record is not reused
CreateIdFresh(options) ==
    IF options.id # NoId THEN options.id ELSE generateId(idCounter)

\* the id createToast gives the item: merged.id ?? prev?.id ?? generateId()
CreateId(options) ==
    LET live == Live(toasts)
        p == PrevIndex(live, options.id)
    IN IF options.id # NoId THEN options.id
       ELSE IF p # 0 THEN live[p].id
       ELSE generateId(idCounter)

\* the item createToast builds, given its instance id
CreateItemWith(options, instanceId) ==
    LET live == Live(toasts)
        merged == MergeOptions(options)
        p == PrevIndex(live, merged.id)
    IN ToastItem(merged, CreateId(options), instanceId,
                 IF p # 0 THEN live[p].position ELSE "undefined")

\* faulty variant of CreateItem: a replaced record passes its instance id on
CreateItemKeepInstance(options) ==
    LET live == Live(toasts)
        p == PrevIndex(live, options.id)
    IN CreateItemWith(options, IF p # 0 THEN live[p].instanceId
                               ELSE generateId(idCounter + IdsNeeded(options) - 1))

\* the item createToast builds: its instance id is generated after its id
CreateItem(options) ==
    CreateItemWith(options, generateId(idCounter + IdsNeeded(options) - 1))

\* faulty variant of CreateSequence: the item is appended to what the store holds
CreateSequenceAppend(prev, item) == Append(prev, item)

\* faulty variant of CreateSequence: the item is appended, the other ids are kept
CreateSequenceKeepOthers(prev, item) == Append(WithoutId(prev, item.id), item)

\* store.update(() => [item]) of createToast: the sequence after the call
CreateSequence(prev, item) == <<item>>

\* createToast(options), with the history kept for it by the caller `op`
createToast(options, op) ==
    LET item == CreateItem(options)
        next == CreateSequence(toasts, item)
    IN /\ idCounter + IdsNeeded(options) <= MaxIdCounter
       /\ idCounter' = idCounter + IdsNeeded(options)
       /\ StoreUpdate(next, timersRef)
       /\ lastOp' = OpCall(op, item.id, options.id,
                           PrevIndex(Live(toasts), options.id) # 0, FALSE)
       /\ dismissed' = {}
       /\ quiet' = IF op = "create" /\ mounted /\ ~hoverRef
                   THEN [id |-> item.id, instanceId |-> item.instanceId, age |-> 0,
                         duration |-> IF item.duration.tag = "null" THEN 0
                                      ELSE FullDuration(item)]
                   ELSE NotQuiet
       /\ UNCHANGED <<sileo, sileoHist, ranBeforeHover, listeners, storePosition, storeOptions, exitTimers, mounted,
                      hoverRef>>

\* sileo.show / sileo.success
Create(options) ==
    /\ createToast(options, "create")
    /\ UNCHANGED promises

\* faulty variant of UpdateSequence: the records are matched on the instance id
UpdateSequenceByInstance(prev, id, item) ==
    [i \in 1..Len(prev) |-> IF prev[i].instanceId = id THEN item ELSE prev[i]]

\* store.update of updateToast: the item takes the place of every record of the id
UpdateSequence(prev, id, item) ==
    [i \in 1..Len(prev) |-> IF prev[i].id = id THEN item ELSE prev[i]]

\* faulty variant of UpdateIgnored: the update goes on without a record of the id
UpdateIgnoredNever(id) == FALSE

\* updateToast(id, options) returns at once when no record has the id
UpdateIgnored(id) == FindIndex(toasts, id) = 0

\* updateToast(id, options), called when a promise settles; `settle`: history, how
\* the promises of the call ended
updateToast(id, options, op, action, settle) ==
    LET existing == FindIndex(toasts, id)
        merged == MergeOptions(options)
        item == ToastItem(merged, id, generateId(idCounter), toasts[existing].position)
        next == UpdateSequence(toasts, id, item)
    IN IF UpdateIgnored(id)
       THEN /\ NoStoreUpdate(timersRef)
            /\ lastOp' = [OpCall(op, id, id, FALSE, action) EXCEPT !.settle = settle]
            /\ quiet' = NotQuiet
            /\ UNCHANGED <<idCounter, dismissed>>
       ELSE /\ idCounter + 1 <= MaxIdCounter
            /\ idCounter' = idCounter + 1
            /\ StoreUpdate(next, timersRef)
            /\ lastOp' = [OpCall(op, id, id, existing # 0, action) EXCEPT !.settle = settle]
            /\ quiet' = NotQuiet
            /\ UNCHANGED dismissed

\* the map of dismissToast: every record of the id is flagged exiting
DismissSequence(prev, id) ==
    [i \in 1..Len(prev) |-> IF prev[i].id = id THEN [prev[i] EXCEPT !.exiting = TRUE]
                            ELSE prev[i]]

\* faulty variant of DismissIgnored: the exiting flag is not looked at
DismissIgnoredUnknownOnly(id) == FindIndex(toasts, id) = 0

\* dismissToast(id) returns at once for an unknown or exiting id
DismissIgnored(id) ==
    LET item == FindIndex(toasts, id)
    IN item = 0 \/ toasts[item].exiting

\* dismissToast(id), called by the API and by the Toaster's dismiss timers
dismissToast(id, timers) ==
    IF DismissIgnored(id)
    THEN /\ NoStoreUpdate(timers)
         /\ UNCHANGED <<exitTimers, dismissed>>
    ELSE /\ StoreUpdate(DismissSequence(toasts, id), timers)
         /\ exitTimers' = Append(exitTimers, [id |-> id, left |-> EXIT_DURATION])
         /\ dismissed' = dismissed \cup {[id |-> id, elapsed |-> 0]}

\* sileo.dismiss(id)
Dismiss(id) ==
    /\ dismissToast(id, timersRef)
    /\ lastOp' = OpCall("dismiss", id, id, ~DismissIgnored(id), FALSE)
    /\ quiet' = NotQuiet
    /\ UNCHANGED <<sileo, sileoHist, ranBeforeHover, listeners, storePosition, storeOptions, idCounter, mounted,
                   hoverRef, promises>>

\* faulty variant of ClearSequence: the position is not looked at
ClearSequenceAll(prev, position) == <<>>

\* the filter of sileo.clear
ClearSequence(prev, position) ==
    IF position # "undefined" THEN SelectSeq(prev, LAMBDA t : t.position # position)
    ELSE <<>>

\* sileo.clear(position?)
Clear(position) ==
    LET next == ClearSequence(toasts, position)
    IN /\ StoreUpdate(next, timersRef)
       /\ lastOp' = Op("clear", NoId)
       /\ dismissed' = {}
       /\ quiet' = NotQuiet
       /\ UNCHANGED <<sileo, sileoHist, ranBeforeHover, listeners, storePosition, storeOptions, idCounter, exitTimers,
                      mounted, hoverRef, promises>>

(* ----------------------------- sileo.promise ----------------------------- *)

RemoveAt(s, i) == SubSeq(s, 1, i - 1) \o SubSeq(s, i + 1, Len(s))

\* durations the success / action / error options of a promise call carry
SettleDurationInputs == {Undef, Num(EXIT_DURATION)}

LoadingOptions == Options(NoId, Null, "undefined", "loading", AutoUndef)

\* sileo.promise(promise, opts): the loading record is created at once; hasAction
\* tells whether opts.action is configured
Promise(hasAction) ==
    /\ createToast(LoadingOptions, "promise")
    /\ promises' = Append(promises, [id |-> CreateId(LoadingOptions), action |-> hasAction])

\* how a promise ended: fulfilled with a value or rejected with a reason
Fulfilled(v) == [kind |-> "fulfilled", value |-> v]
Rejected(v) == [kind |-> "rejected", value |-> v]

\* the value the input promise resolves with, the reason it rejects with, the
\* error thrown by an option function, and undefined
UndefinedValue == 0
ResolvedValue == 1
RejectionReason == 2
ThrownError == 3

\* p.then(onResolved): onResolved runs when p is fulfilled and returns undefined,
\* or throws when the option function it calls throws; a rejection passes through
ThenOutcome(input, throws) ==
    IF input.kind = "fulfilled"
    THEN IF throws THEN Rejected(ThrownError) ELSE Fulfilled(UndefinedValue)
    ELSE input

\* q.catch(onRejected): onRejected runs when q is rejected and returns undefined
CatchOutcome(q) ==
    IF q.kind = "rejected" THEN Fulfilled(UndefinedValue) ELSE q

\* faulty variant of ChainOutcome: no .catch, the rejection stays in the chain
ChainOutcomeUncaught(input, throws) == ThenOutcome(input, throws)

\* p.then(onResolved).catch(onRejected)
ChainOutcome(input, throws) == CatchOutcome(ThenOutcome(input, throws))

\* faulty variant of ReturnedPromise: the promise of the .then().catch() chain
ReturnedPromiseChain(input, chain) == chain

\* `return p`: the promise sileo.promise returns is the input promise
ReturnedPromise(input, chain) == input

\* history: how the promises of a promise call ended, from the input's outcome
Settle(input, throws) ==
    [input |-> input, chain |-> ChainOutcome(input, throws),
     returned |-> ReturnedPromise(input, ChainOutcome(input, throws))]

\* the options updateToast is called with when the promise settles
SuccessOptions(id, duration, action) ==
    Options(id, duration, "undefined", IF action THEN "action" ELSE "success", AutoUndef)

\* faulty variant of ErrorOptions: the state of the options is not overridden
ErrorOptionsAsGiven(id, duration) ==
    Options(id, duration, "undefined", "undefined", AutoUndef)

ErrorOptions(id, duration) ==
    Options(id, duration, "undefined", "error", AutoUndef)

\* the .then callback: the promise resolved. `throws`: opts.success / opts.action is
\* a function that throws, and the .catch callback shows the error options
Resolve(i, duration, throws) ==
    LET p == promises[i]
    IN /\ updateToast(p.id,
                      IF throws THEN ErrorOptions(p.id, duration)
                      ELSE SuccessOptions(p.id, duration, p.action),
                      IF throws THEN "resolveThrow" ELSE "resolve", p.action,
                      Settle(Fulfilled(ResolvedValue), throws))
       /\ promises' = RemoveAt(promises, i)
       /\ UNCHANGED <<sileo, sileoHist, ranBeforeHover, listeners, storePosition, storeOptions, exitTimers, mounted,
                      hoverRef>>

\* the .catch callback: the promise rejected
Reject(i, duration) ==
    LET p == promises[i]
    IN /\ updateToast(p.id, ErrorOptions(p.id, duration), "reject", p.action,
                      Settle(Rejected(RejectionReason), FALSE))
       /\ promises' = RemoveAt(promises, i)
       /\ UNCHANGED <<sileo, sileoHist, ranBeforeHover, listeners, storePosition, storeOptions, exitTimers, mounted,
                      hoverRef>>

(* ------------------------------- the Toaster ----------------------------- *)

\* faulty variant of clearAllTimers: the handles are left in the map, uncleared
clearNoTimers(timers) == timers

\* clearAllTimers()
clearAllTimers(timers) == {}

\* a Toaster mounts: its state starts as store.toasts, and its effects run: the
\* store takes its position and options, its listener is added, timers are scheduled
Mount(options) ==
    /\ ~mounted
    /\ mounted' = TRUE
    /\ storePosition' = "top-right"
    /\ storeOptions' = options
    /\ listeners' = listeners \cup {"Toaster"}
    /\ hoverRef' = FALSE
    /\ listRef' = toasts
    /\ timersRef' = TimerEffect({}, toasts, FALSE)
    /\ latestRef' = latest(toasts)
    /\ activeId' = latest(toasts)
    /\ lastOp' = Op("mount", NoId)
    /\ emitted' = <<>>
    /\ quiet' = NotQuiet
    /\ UNCHANGED <<sileo, sileoHist, ranBeforeHover, toasts, idCounter, exitTimers, pointerOver, promises, dismissed>>

\* the Toaster unmounts: the cleanup of the subscribe effect (history: hit tells
\* whether a dismiss timer was pending)
Unmount ==
    /\ mounted
    /\ mounted' = FALSE
    /\ listeners' = listeners \ {"Toaster"}
    /\ timersRef' = clearAllTimers(timersRef)
    /\ hoverRef' = FALSE
    /\ listRef' = <<>>
    /\ pointerOver' = NoId
    /\ activeId' = NoId
    /\ latestRef' = NoId
    /\ lastOp' = OpCall("unmount", NoId, NoId, \E t \in timersRef : t.pending, FALSE)
    /\ emitted' = <<>>
    /\ quiet' = NotQuiet
    /\ UNCHANGED <<sileo, sileoHist, ranBeforeHover, toasts, storePosition, storeOptions, idCounter, exitTimers,
                   promises, dismissed>>

\* the timers after handleMouseEnter
EnterTimers(timers, hover) == IF hover THEN timers ELSE clearAllTimers(timers)

\* the pointer enters the widget of toast id: handleMouseEnter
MouseEnter(id) ==
    /\ mounted
    /\ pointerOver = NoId
    /\ id \in Ids(listRef)
    /\ pointerOver' = id
    /\ activeId' = id
    /\ hoverRef' = TRUE
    /\ timersRef' = EnterTimers(timersRef, hoverRef)
    /\ ranBeforeHover' =
           IF hoverRef THEN ranBeforeHover
           ELSE {listRef[i].instanceId :
                   i \in {j \in 1..Len(listRef) :
                            \E t \in timersRef :
                                /\ t.pending
                                /\ timeoutKey(listRef[j]) = <<t.id, t.instanceId>>
                                /\ t.left < FullDuration(listRef[j])}}
    /\ lastOp' = Op("mouseEnter", id)
    /\ emitted' = <<>>
    /\ quiet' = NotQuiet
    /\ UNCHANGED <<sileo, sileoHist, toasts, listeners, storePosition, storeOptions, idCounter, exitTimers,
                   mounted, listRef, latestRef, promises, dismissed>>

\* faulty variant of LeaveTimers: handleMouseLeave schedules nothing
LeaveTimersUnscheduled(timers, items, hover) == timers

\* the timers after handleMouseLeave
LeaveTimers(timers, items, hover) ==
    IF ~hover THEN timers ELSE schedule(timers, items, FALSE)

\* the pointer leaves the widget it is over: handleMouseLeave
MouseLeave ==
    /\ mounted
    /\ pointerOver # NoId
    /\ pointerOver' = NoId
    /\ activeId' = latestRef
    /\ hoverRef' = FALSE
    /\ timersRef' = LeaveTimers(timersRef, listRef, hoverRef)
    /\ lastOp' = Op("mouseLeave", pointerOver)
    /\ emitted' = <<>>
    /\ quiet' = NotQuiet
    /\ UNCHANGED <<sileo, sileoHist, ranBeforeHover, toasts, listeners, storePosition, storeOptions, idCounter, exitTimers,
                   mounted, listRef, latestRef, promises, dismissed>>

(* --------------------------------- timers -------------------------------- *)

\* a timer that has no time left fires before time moves on
TimerDue ==
    \/ \E t \in timersRef : t.pending /\ t.left <= 0
    \/ \E i \in 1..Len(exitTimers) : exitTimers[i].left <= 0

\* a dismiss timer of the Toaster fires: dismissToast(item.id); its handle stays in
\* timersRef until the timer effect or clearAllTimers drops it
DismissTimerFire(t) ==
    /\ t \in timersRef
    /\ t.pending
    /\ t.left <= 0
    /\ dismissToast(t.id, (timersRef \ {t}) \cup {[t EXCEPT !.pending = FALSE]})
    /\ lastOp' = OpCall("dismissTimer", t.id, t.id, ~DismissIgnored(t.id), FALSE)
    /\ UNCHANGED <<sileo, sileoHist, ranBeforeHover, listeners, storePosition, storeOptions, idCounter, mounted,
                   hoverRef, promises, quiet>>

\* the filter of the exit timer's callback
ExitSequence(prev, id) == WithoutId(prev, id)

\* the exit timer set by dismissToast fires: the records of the id are removed
ExitTimerFire ==
    /\ exitTimers # <<>>
    /\ Head(exitTimers).left <= 0
    /\ LET id == Head(exitTimers).id
           next == ExitSequence(toasts, id)
       IN /\ StoreUpdate(next, timersRef)
          /\ lastOp' = Op("exitTimer", id)
    /\ exitTimers' = Tail(exitTimers)
    /\ UNCHANGED <<sileo, sileoHist, ranBeforeHover, listeners, storePosition, storeOptions, idCounter, mounted,
                   hoverRef, promises, dismissed, quiet>>

\* history: the age of the quiet record stops counting one step after the record
\* is due to be gone
AgeCap(q) == q.duration + EXIT_DURATION + TimeStep

\* TimeStep milliseconds pass
Tick ==
    /\ ~TimerDue
    /\ timersRef' = {IF t.pending THEN [t EXCEPT !.left = t.left - TimeStep] ELSE t :
                        t \in timersRef}
    /\ exitTimers' = [i \in 1..Len(exitTimers) |->
                        [exitTimers[i] EXCEPT !.left = exitTimers[i].left - TimeStep]]
    /\ dismissed' = {[d EXCEPT !.elapsed = d.elapsed + TimeStep] :
                        d \in {e \in dismissed : e.elapsed <= EXIT_DURATION}}
    /\ quiet' = IF quiet = NotQuiet THEN quiet
                ELSE [quiet EXCEPT !.age = Min(quiet.age + TimeStep, AgeCap(quiet))]
    /\ lastOp' = Op("tick", NoId)
    /\ emitted' = <<>>
    /\ UNCHANGED <<sileo, sileoHist, toasts, listeners, storePosition, storeOptions, idCounter,
                   mounted, hoverRef, listRef, pointerOver, activeId, latestRef, promises,
                   ranBeforeHover>>

(* ============================ the Sileo widget ============================ *)

HEIGHT == 40
SWAP_COLLAPSE_MS == 200
HEADER_EXIT_MS == 150

\* HEIGHT * MIN_EXPAND_RATIO, the ratio being 2.25
minExpanded == (HEIGHT * 225) \div 100

SileoTimeStep == SWAP_COLLAPSE_MS \div 4

\* the refreshKey prop when it is undefined, and the first key a parent passes
NoKey == 0
FirstKey == 1

\* the id prop of the widget, and the id of another notification
SileoId == 1
OtherId == 2

\* a View, as far as the widget's logic looks at it: its state, whether it has a
\* description or a button, and the scrollHeight its content has once rendered
Payload(state, body, height) == [state |-> state, body |-> body, height |-> height]

ShortBody == HEIGHT * 2
TallBody == HEIGHT * 4

PayloadInputs ==
    {Payload("success", TRUE, ShortBody), Payload("success", TRUE, TallBody),
     Payload("loading", TRUE, ShortBody), Payload("success", FALSE, 0)}

\* the autoExpandDelayMs / autoCollapseDelayMs props: none, or the delays
\* resolveAutopilot gives a toast of a duration between AUTO_EXPAND_DELAY and
\* AUTO_COLLAPSE_DELAY
SileoDuration == AUTO_EXPAND_DELAY * 2

DelayInputs ==
    {NoDelays, resolveAutopilot(AutoUndef, Num(SileoDuration))}

\* the canExpand and interruptKey props (NoId: undefined): neither, canExpand
\* false, and an interruptKey that names another notification
ExpandInputs ==
    {[canExpand |-> "undefined", interruptKey |-> NoId],
     [canExpand |-> "false", interruptKey |-> NoId],
     [canExpand |-> "undefined", interruptKey |-> OtherId]}

NoPending == [set |-> FALSE, key |-> NoKey, payload |-> Payload("success", FALSE, 0)]
Pending(key, payload) == [set |-> TRUE, key |-> key, payload |-> payload]

(* ----------------------------- derived values ---------------------------- *)

hasDesc(w) == w.view.body

isLoading(w) == w.view.state = "loading"

\* `${view.state}-${view.title}`: the payloads of the model have one title
headerKey(w) == w.view.state

\* the header layer without a previous layer
NoHeader == "none"

open(w) == hasDesc(w) /\ w.isExpanded /\ ~isLoading(w)

\* isLoading ? false : (canExpand ?? (!interruptKey || interruptKey === id))
allowExpand(w) ==
    IF isLoading(w) THEN FALSE
    ELSE IF w.canExpand # "undefined" THEN w.canExpand = "true"
    ELSE w.interruptKey = NoId \/ w.interruptKey = w.id

rawExpanded(w) ==
    IF hasDesc(w) THEN Max(minExpanded, HEIGHT + w.contentHeight) ELSE minExpanded

\* the render's `if (open) frozenExpandedRef.current = rawExpanded`
FreezeExpanded(w) == IF open(w) THEN rawExpanded(w) ELSE w.frozenExpandedRef

expanded(w) == IF open(w) THEN rawExpanded(w) ELSE w.frozenExpandedRef

(* --------------------------------- effects -------------------------------- *)

\* In the effects below w is the render the effect closes over, and r the widget
\* as the effects that ran before have left it: an effect reads props and state
\* from w, reads and writes refs in r, and its setState calls are written to r.

\* the layout effect on [hasDesc]: setContentHeight(0) without a description,
\* else measure(), which sets contentHeight to the content's scrollHeight
ContentHeightEffect(r, w) ==
    [r EXCEPT !.contentHeight = IF hasDesc(w) THEN w.view.height ELSE 0]

\* the layout effect on [headerKey, view]: a new header key makes the current
\* header layer the previous one
HeaderLayerEffect(r, w) ==
    IF r.headerLayer.current = headerKey(w) THEN r
    ELSE [r EXCEPT !.headerLayer = [current |-> headerKey(w), prev |-> @.current]]

\* the effect on [headerLayer.prev]: the cleanup of its run before has cleared the
\* header exit timer, and a previous layer gets a timer of HEADER_EXIT_MS
HeaderExitEffect(r, w) ==
    [r EXCEPT !.headerExitRef = IF w.headerLayer.prev = NoHeader THEN Null
                                ELSE Num(HEADER_EXIT_MS)]

\* faulty variant of RefreshEffect: a replacement that arrives while collapsed
\* leaves the swap timer and the payload staged earlier as they are
RefreshEffectKeepsStaged(r, w) ==
    IF w.refreshKey = NoKey
    THEN [r EXCEPT !.view = w.next, !.applied = NoKey, !.pendingRef = NoPending,
                   !.lastRefreshKeyRef = NoKey]
    ELSE IF r.lastRefreshKeyRef = w.refreshKey THEN r
    ELSE IF open(w)
    THEN [r EXCEPT !.lastRefreshKeyRef = w.refreshKey,
                   !.pendingRef = Pending(w.refreshKey, w.next),
                   !.isExpanded = FALSE,
                   !.swapTimerRef = Num(SWAP_COLLAPSE_MS)]
    ELSE [r EXCEPT !.lastRefreshKeyRef = w.refreshKey,
                   !.view = w.next, !.applied = w.refreshKey]

\* the refresh effect, on [open, refreshKey, next]
RefreshEffect(r, w) ==
    IF w.refreshKey = NoKey
    THEN [r EXCEPT !.view = w.next, !.applied = NoKey, !.pendingRef = NoPending,
                   !.lastRefreshKeyRef = NoKey]
    ELSE IF r.lastRefreshKeyRef = w.refreshKey THEN r
    ELSE IF open(w)
    THEN [r EXCEPT !.lastRefreshKeyRef = w.refreshKey,
                   !.pendingRef = Pending(w.refreshKey, w.next),
                   !.isExpanded = FALSE,
                   !.swapTimerRef = Num(SWAP_COLLAPSE_MS)]
    ELSE [r EXCEPT !.lastRefreshKeyRef = w.refreshKey, !.swapTimerRef = Null,
                   !.pendingRef = NoPending, !.view = w.next, !.applied = w.refreshKey]

\* faulty variant of AutoEffect: the exiting prop is not looked at
AutoEffectIgnoringExit(r, w) ==
    LET cleared == [r EXCEPT !.autoExpandRef = Null, !.autoCollapseRef = Null]
        expandDelay == Coalesce(w.autoExpandDelayMs, Num(0)).val
        collapseDelay == Coalesce(w.autoCollapseDelayMs, Num(0)).val
    IN IF ~hasDesc(w) THEN cleared
       ELSE IF ~allowExpand(w) THEN [cleared EXCEPT !.isExpanded = FALSE]
       ELSE IF w.autoExpandDelayMs.tag # "number" /\ w.autoCollapseDelayMs.tag # "number"
       THEN cleared
       ELSE [cleared EXCEPT
               !.autoExpandRef = IF expandDelay > 0 THEN Num(expandDelay) ELSE Null,
               !.isExpanded = IF expandDelay > 0 THEN @ ELSE TRUE,
               !.autoCollapseRef = IF collapseDelay > 0 THEN Num(collapseDelay) ELSE Null]

\* the auto expand / collapse effect, on [autoCollapseDelayMs, autoExpandDelayMs,
\* hasDesc, allowExpand, exiting, applied]; when it runs again the cleanup of its
\* run before has cleared both timers
AutoEffect(r, w) ==
    LET cleared == [r EXCEPT !.autoExpandRef = Null, !.autoCollapseRef = Null]
        expandDelay == Coalesce(w.autoExpandDelayMs, Num(0)).val
        collapseDelay == Coalesce(w.autoCollapseDelayMs, Num(0)).val
    IN IF ~hasDesc(w) THEN cleared
       ELSE IF w.exiting \/ ~allowExpand(w) THEN [cleared EXCEPT !.isExpanded = FALSE]
       ELSE IF w.autoExpandDelayMs.tag # "number" /\ w.autoCollapseDelayMs.tag # "number"
       THEN cleared
       ELSE [cleared EXCEPT
               !.autoExpandRef = IF expandDelay > 0 THEN Num(expandDelay) ELSE Null,
               !.isExpanded = IF expandDelay > 0 THEN @ ELSE TRUE,
               !.autoCollapseRef = IF collapseDelay > 0 THEN Num(collapseDelay) ELSE Null]

\* the dependencies of the effects, as a render computes them
Deps(w) ==
    [hasDesc |-> hasDesc(w),
     header |-> <<headerKey(w), w.view>>,
     headerPrev |-> w.headerLayer.prev,
     refresh |-> <<open(w), w.refreshKey, w.next>>,
     auto |-> <<w.autoCollapseDelayMs, w.autoExpandDelayMs, hasDesc(w), allowExpand(w),
                w.exiting, w.applied>>]

\* one render and the effects it schedules; prev: the dependencies of the render
\* before, first: the render is the one of the mount, when every effect runs
\* (opened is history: a render of the step showed the widget open)
Commit(w, prev, first) ==
    LET snap == [w EXCEPT !.frozenExpandedRef = FreezeExpanded(w),
                          !.opened = @ \/ open(w)]
        d == Deps(snap)
        a == IF first \/ d.hasDesc # prev.hasDesc THEN ContentHeightEffect(snap, snap) ELSE snap
        h == IF first \/ d.header # prev.header THEN HeaderLayerEffect(a, snap) ELSE a
        x == IF ~first /\ d.headerPrev # prev.headerPrev THEN HeaderExitEffect(h, snap) ELSE h
        b == IF first \/ d.refresh # prev.refresh THEN RefreshEffect(x, snap) ELSE x
    IN IF first \/ d.auto # prev.auto THEN AutoEffect(b, snap) ELSE b

\* the state of the widget, whose change makes it render again
StateOf(w) == <<w.view, w.applied, w.isExpanded, w.contentHeight, w.headerLayer>>

\* the widget renders until a render's effects leave its state as it is
RECURSIVE Render(_, _, _)
Render(w, prev, first) ==
    CHOOSE out \in {IF StateOf(r) = StateOf(w) THEN r ELSE Render(r, Deps(w), FALSE) :
                       r \in {Commit(w, prev, first)}} : TRUE

(* ------------------------------ the widget's steps ------------------------ *)

\* history of the swipe handlers: the displacement the last pointer event came
\* with, whether it was on the action button, whether it came during a drag, and
\* whether its handler called onDismiss
NoSwipeHist == [dy |-> 0, button |-> FALSE, dragging |-> FALSE, dismissed |-> FALSE]

\* the widget before its first render: useState and useRef initial values; the
\* onDismiss and dismiss props, the drag start, the pointermove / pointerup
\* listeners and the translateY of the element are those of the widget with
\* swipe handlers (src/unnamed/part_000)
MountState(payload, delays, e) ==
    [mounted |-> TRUE,
     id |-> SileoId, exiting |-> FALSE,
     canExpand |-> e.canExpand, interruptKey |-> e.interruptKey,
     refreshKey |-> FirstKey, next |-> payload,
     autoExpandDelayMs |-> delays.expandDelayMs,
     autoCollapseDelayMs |-> delays.collapseDelayMs,
     view |-> payload, applied |-> FirstKey, isExpanded |-> FALSE, contentHeight |-> 0,
     headerLayer |-> [current |-> payload.state, prev |-> NoHeader],
     headerExitRef |-> Null,
     lastRefreshKeyRef |-> FirstKey, pendingRef |-> NoPending, swapTimerRef |-> Null,
     autoExpandRef |-> Null, autoCollapseRef |-> Null, frozenExpandedRef |-> minExpanded,
     pointer |-> FALSE, transition |-> FALSE, opened |-> FALSE,
     onDismiss |-> FALSE, dismiss |-> FALSE,
     pointerStartRef |-> Null, listening |-> FALSE, translateY |-> 0,
     swipeHist |-> NoSwipeHist,
     position |-> "left", pillWidth |-> 0, headerPadRef |-> 0]

\* no widget: the store and the Toaster are looked at without one
NoSileo ==
    [MountState(Payload("success", FALSE, 0), NoDelays,
                [canExpand |-> "undefined", interruptKey |-> NoId])
       EXCEPT !.mounted = FALSE]

NoSileoHist == [op |-> "none", staged |-> 0, hadPending |-> FALSE]

\* the widget after a step: r is the widget as the step's handler or new props
\* leave it; it renders, and a change of open starts a height / transform transition
SileoStep(name, r) ==
    LET done == Render([r EXCEPT !.opened = FALSE], Deps(sileo), FALSE)
    IN /\ sileo' = [done EXCEPT !.transition = @ \/ open(done) # open(sileo)]
       /\ sileoHist' = [op |-> name,
                        staged |-> IF ~done.pendingRef.set THEN 0
                                   ELSE IF done.pendingRef # sileo.pendingRef
                                   THEN expanded(sileo)
                                   ELSE sileoHist.staged,
                        hadPending |-> sileo.pendingRef.set]
       /\ UNCHANGED storeVars

\* the parent renders the widget with a new refreshKey, payload and delays
SileoRefresh(payload, delays) ==
    /\ sileo.mounted
    /\ sileo.refreshKey < MaxRefreshKey
    /\ SileoStep("refresh", [sileo EXCEPT !.refreshKey = @ + 1, !.next = payload,
                                          !.autoExpandDelayMs = delays.expandDelayMs,
                                          !.autoCollapseDelayMs = delays.collapseDelayMs])

\* the parent sets the exiting prop
SileoExit ==
    /\ sileo.mounted
    /\ ~sileo.exiting
    /\ SileoStep("exit", [sileo EXCEPT !.exiting = TRUE])

\* the parent changes the canExpand or the interruptKey prop
SileoExpandProps(e) ==
    /\ sileo.mounted
    /\ <<e.canExpand, e.interruptKey>> # <<sileo.canExpand, sileo.interruptKey>>
    /\ SileoStep("expandProps", [sileo EXCEPT !.canExpand = e.canExpand,
                                              !.interruptKey = e.interruptKey])

\* handleEnter: the pointer enters the widget
handleEnter ==
    /\ sileo.mounted
    /\ ~sileo.pointer
    /\ SileoStep("enter", [sileo EXCEPT !.pointer = TRUE,
                                        !.isExpanded = IF hasDesc(sileo) THEN TRUE ELSE @])

\* handleLeave: the pointer leaves the widget
handleLeave ==
    /\ sileo.mounted
    /\ sileo.pointer
    /\ SileoStep("leave", [sileo EXCEPT !.pointer = FALSE, !.isExpanded = FALSE])

\* faulty variant of CommitPending: the pending payload is dropped, not shown
CommitPendingLost(w) == [w EXCEPT !.pendingRef = NoPending]

\* the payload that is pending, if any, becomes the view
CommitPending(w) ==
    IF w.pendingRef.set
    THEN [w EXCEPT !.view = w.pendingRef.payload, !.applied = w.pendingRef.key,
                   !.pendingRef = NoPending]
    ELSE w

\* handleTransitionEnd for a height or transform transition
handleTransitionEnd ==
    /\ sileo.mounted
    /\ sileo.transition
    /\ SileoStep("transitionEnd",
                 LET w == [sileo EXCEPT !.transition = FALSE]
                 IN IF open(sileo) \/ ~sileo.pendingRef.set THEN w
                    ELSE CommitPending([w EXCEPT !.swapTimerRef = Null]))

\* the swap timer set by the refresh effect fires: its callback commits the pending
\* payload; on a widget that has unmounted the setState calls do nothing
SwapTimerFire ==
    /\ sileo.swapTimerRef = Num(0)
    /\ IF sileo.mounted
       THEN SileoStep("swapTimer", CommitPending([sileo EXCEPT !.swapTimerRef = Null]))
       ELSE /\ sileo' = [sileo EXCEPT !.swapTimerRef = Null, !.pendingRef = NoPending]
            /\ sileoHist' = [sileoHist EXCEPT !.op = "swapTimer",
                                              !.hadPending = sileo.pendingRef.set]
            /\ UNCHANGED storeVars

\* the header exit timer fires: the previous header layer is removed
HeaderExitFire ==
    /\ sileo.headerExitRef = Num(0)
    /\ SileoStep("headerExit", [sileo EXCEPT !.headerExitRef = Null,
                                             !.headerLayer.prev = NoHeader])

\* the auto-expand timer fires
AutoExpandFire ==
    /\ sileo.autoExpandRef = Num(0)
    /\ SileoStep("autoExpand", [sileo EXCEPT !.autoExpandRef = Null, !.isExpanded = TRUE])

\* the auto-collapse timer fires; the auto-expand timer, set before it by the same
\* effect, fires first when both are due
AutoCollapseFire ==
    /\ sileo.autoCollapseRef = Num(0)
    /\ sileo.autoExpandRef # Num(0)
    /\ SileoStep("autoCollapse", [sileo EXCEPT !.autoCollapseRef = Null,
                                               !.isExpanded = FALSE])

\* the ResizeObserver of the content calls measure()
SileoMeasure ==
    /\ sileo.mounted
    /\ hasDesc(sileo)
    /\ sileo.contentHeight # sileo.view.height
    /\ SileoStep("measure", [sileo EXCEPT !.contentHeight = sileo.view.height])

\* the cleanups that run when the widget unmounts: those of the header exit effect
\* and of the auto expand / collapse effect clear their timers
UnmountCleanup(w) ==
    [w EXCEPT !.headerExitRef = Null, !.autoExpandRef = Null, !.autoCollapseRef = Null]

\* the parent stops rendering the widget: its cleanups run and its state is gone;
\* the refs stay with the callbacks that closed over them
SileoUnmount ==
    /\ sileo.mounted
    /\ LET c == UnmountCleanup(sileo)
       IN sileo' = [NoSileo EXCEPT !.swapTimerRef = c.swapTimerRef,
                                   !.pendingRef = c.pendingRef,
                                   !.headerExitRef = c.headerExitRef,
                                   !.autoExpandRef = c.autoExpandRef,
                                   !.autoCollapseRef = c.autoCollapseRef]
    /\ sileoHist' = [op |-> "unmount", staged |-> 0, hadPending |-> sileo.pendingRef.set]
    /\ UNCHANGED storeVars

SileoTimers(w) ==
    {w.swapTimerRef, w.autoExpandRef, w.autoCollapseRef, w.headerExitRef} \ {Null}

\* SileoTimeStep milliseconds pass: no timer of the widget is due, one is pending
SileoTick ==
    /\ SileoTimers(sileo) # {}
    /\ Num(0) \notin SileoTimers(sileo)
    /\ LET less(t) == IF t = Null THEN Null ELSE Num(t.val - SileoTimeStep)
       IN sileo' = [sileo EXCEPT !.swapTimerRef = less(@), !.autoExpandRef = less(@),
                                 !.autoCollapseRef = less(@), !.headerExitRef = less(@),
                                 !.opened = open(sileo)]
    /\ sileoHist' = [sileoHist EXCEPT !.op = "tick", !.hadPending = sileo.pendingRef.set]
    /\ UNCHANGED storeVars

(* ---------------------------- the specification -------------------------- *)

Init ==
    /\ toasts = <<>>
    /\ listeners = {}
    /\ storePosition = "top-right"
    /\ storeOptions = [duration |-> Undef]
    /\ idCounter = 0
    /\ exitTimers = <<>>
    /\ mounted = FALSE
    /\ hoverRef = FALSE
    /\ timersRef = {}
    /\ listRef = <<>>
    /\ pointerOver = NoId
    /\ activeId = NoId
    /\ latestRef = NoId
    /\ promises = <<>>
    /\ lastOp = Op("init", NoId)
    /\ emitted = <<>>
    /\ dismissed = {}
    /\ quiet = NotQuiet
    /\ ranBeforeHover = {}
    /\ sileo = NoSileo
    /\ sileoHist = NoSileoHist

StateInputs == {"undefined"}

\* ids dismiss is called with: those in the store, and explicit ids, in the store or not
DismissIds == Ids(toasts) \cup ExplicitIds

Next ==
    \/ \E id \in {NoId} \cup ExplicitIds, d \in DurationInputs, pos \in PositionInputs,
          st \in StateInputs, a \in AutopilotInputs :
          Create(Options(id, d, pos, st, a))
    \/ \E id \in DismissIds : Dismiss(id)
    \/ \E pos \in ClearInputs : Clear(pos)
    \/ \E hasAction \in BOOLEAN : Promise(hasAction)
    \/ \E i \in 1..Len(promises), d \in SettleDurationInputs, throws \in BOOLEAN :
          Resolve(i, d, throws)
    \/ \E i \in 1..Len(promises), d \in SettleDurationInputs : Reject(i, d)
    \/ \E o \in ToasterOptionInputs : Mount(o)
    \/ Unmount
    \/ \E id \in Ids(listRef) : MouseEnter(id)
    \/ MouseLeave
    \/ \E t \in timersRef : DismissTimerFire(t)
    \/ ExitTimerFire
    \/ Tick

Spec == Init /\ [][Next]_vars

(* ------------------- the store with records at two positions ------------- *)

\* positions a caller passes to create and to clear when two are in use
TwoPositionInputs == {"undefined", "top-left"}
TwoClearInputs == {"undefined", "top-right", "top-left"}

\* create, dismiss and clear calls and the timers, with the wider positions
NextPositions ==
    \/ \E id \in {NoId} \cup ExplicitIds, d \in DurationInputs, pos \in TwoPositionInputs,
          st \in StateInputs, a \in AutopilotInputs :
          Create(Options(id, d, pos, st, a))
    \/ \E id \in DismissIds : Dismiss(id)
    \/ \E pos \in TwoClearInputs : Clear(pos)
    \/ \E o \in ToasterOptionInputs : Mount(o)
    \/ \E t \in timersRef : DismissTimerFire(t)
    \/ ExitTimerFire
    \/ Tick

SpecPositions == Init /\ [][NextPositions]_vars

(* ------------------------- the widget on its own -------------------------- *)

\* the store is as Init leaves it, and a widget has mounted: its first render and
\* the effects of the mount have run
InitSileo ==
    /\ toasts = <<>>
    /\ listeners = {}
    /\ storePosition = "top-right"
    /\ storeOptions = [duration |-> Undef]
    /\ idCounter = 0
    /\ exitTimers = <<>>
    /\ mounted = FALSE
    /\ hoverRef = FALSE
    /\ timersRef = {}
    /\ listRef = <<>>
    /\ pointerOver = NoId
    /\ activeId = NoId
    /\ latestRef = NoId
    /\ promises = <<>>
    /\ lastOp = Op("init", NoId)
    /\ emitted = <<>>
    /\ dismissed = {}
    /\ quiet = NotQuiet
    /\ ranBeforeHover = {}
    /\ \E payload \in PayloadInputs, delays \in DelayInputs, e \in ExpandInputs :
          LET w == MountState(payload, delays, e)
          IN sileo = Render(w, Deps(w), TRUE)
    /\ sileoHist = [op |-> "mount", staged |-> 0, hadPending |-> FALSE]

NextSileo ==
    \/ \E payload \in PayloadInputs, delays \in DelayInputs : SileoRefresh(payload, delays)
    \/ SileoExit
    \/ \E e \in ExpandInputs : SileoExpandProps(e)
    \/ handleEnter
    \/ handleLeave
    \/ handleTransitionEnd
    \/ SwapTimerFire
    \/ HeaderExitFire
    \/ SileoUnmount
    \/ AutoExpandFire
    \/ AutoCollapseFire
    \/ SileoMeasure
    \/ SileoTick

SpecSileo == InitSileo /\ [][NextSileo]_vars

(* ------------------------ the widget's derived values --------------------- *)

WIDTH == 350
PILL_PADDING == 10

\* faulty variant of resolvedPillWidth: the measured width is taken as it is
resolvedPillWidthUnbounded(w) == IF w.pillWidth # 0 THEN w.pillWidth ELSE HEIGHT

\* Math.max(pillWidth || HEIGHT, HEIGHT)
resolvedPillWidth(w) == Max(IF w.pillWidth # 0 THEN w.pillWidth ELSE HEIGHT, HEIGHT)

\* the pill's offset, in half pixels: the source's value is a number of pixels
\* that has a half when WIDTH - resolvedPillWidth is odd
pillX(w) ==
    IF w.position = "right" THEN 2 * (WIDTH - resolvedPillWidth(w))
    ELSE IF w.position = "center" THEN WIDTH - resolvedPillWidth(w)
    ELSE 0

\* measure() of the header: the pill width is set when the header has a width
MeasurePill(w, scrollWidth) ==
    LET m == scrollWidth + w.headerPadRef + PILL_PADDING
    IN IF m > PILL_PADDING THEN [w EXCEPT !.pillWidth = m] ELSE w

\* scrollHeight of the content: none, below, at and above the height at which
\* HEIGHT + contentHeight passes minExpanded
ContentHeights ==
    {0, HEIGHT \div 4, minExpanded - HEIGHT - 1, minExpanded - HEIGHT,
     minExpanded - HEIGHT + 1, TallBody}

\* scrollWidth of the header's inner element: none, below and above HEIGHT with
\* the padding, even and odd, below and above WIDTH
HeaderWidths == {0, 5, HEIGHT - PILL_PADDING, HEIGHT + 1, WIDTH - PILL_PADDING, WIDTH + HEIGHT}

\* paddingLeft + paddingRight of the header
HeaderPads == {0, HEIGHT \div 2}

\* the ResizeObserver of the content calls measure() with a new scrollHeight
SileoResizeContent(h) ==
    /\ sileo.mounted
    /\ hasDesc(sileo)
    /\ sileo.contentHeight # h
    /\ SileoStep("measure", [sileo EXCEPT !.contentHeight = h])

\* the ResizeObserver of the header calls measure() with a new scrollWidth
SileoResizeHeader(scrollWidth) ==
    /\ sileo.mounted
    /\ MeasurePill(sileo, scrollWidth) # sileo
    /\ SileoStep("measureHeader", MeasurePill(sileo, scrollWidth))

\* the store is as Init leaves it, and a widget has mounted with or without a
\* description, at one of the three alignments, its header measured once
InitGeometry ==
    /\ toasts = <<>>
    /\ listeners = {}
    /\ storePosition = "top-right"
    /\ storeOptions = [duration |-> Undef]
    /\ idCounter = 0
    /\ exitTimers = <<>>
    /\ mounted = FALSE
    /\ hoverRef = FALSE
    /\ timersRef = {}
    /\ listRef = <<>>
    /\ pointerOver = NoId
    /\ activeId = NoId
    /\ latestRef = NoId
    /\ promises = <<>>
    /\ lastOp = Op("init", NoId)
    /\ emitted = <<>>
    /\ dismissed = {}
    /\ quiet = NotQuiet
    /\ ranBeforeHover = {}
    /\ \E body \in BOOLEAN, pos \in {"left", "center", "right"}, px \in HeaderPads,
          scrollWidth \in HeaderWidths :
          LET w == MountState(Payload("success", body, IF body THEN ShortBody ELSE 0),
                              NoDelays, [canExpand |-> "undefined", interruptKey |-> NoId])
          IN sileo = MeasurePill([Render(w, Deps(w), TRUE) EXCEPT !.position = pos,
                                                                  !.headerPadRef = px],
                                 scrollWidth)
    /\ sileoHist = [op |-> "mount", staged |-> 0, hadPending |-> FALSE]

NextGeometry ==
    \/ \E h \in ContentHeights : SileoResizeContent(h)
    \/ \E scrollWidth \in HeaderWidths : SileoResizeHeader(scrollWidth)

SpecGeometry == InitGeometry /\ [][NextGeometry]_vars

(* ------------------ records and their autopilot delays -------------------- *)

\* delay overrides of the autopilot option: absent, negative, 0, and values below
\* and above the durations
DelayOverrides == {Undef, Num(0 - 50), Num(0), Num(200), Num(7000)}

\* the autopilot option: absent, true, false, and every object of overrides
AutoTrue == [kind |-> "true", expand |-> Undef, collapse |-> Undef]

AutopilotOptions ==
    {AutoUndef, AutoTrue, AutoFalse} \cup
        {AutoObject(e, c) : e \in DelayOverrides, c \in DelayOverrides}

\* the duration option: absent, null, 0, negative, and positive values
DurationOptions == {Undef, Null, Num(0), Num(0 - 100), Num(100), Num(3000)}

\* p.then of sileo.promise without opts.action: the record is updated with the
\* success options the caller gave
ResolveWith(i, duration, autopilot) ==
    LET p == promises[i]
    IN /\ ~p.action
       /\ updateToast(p.id, Options(p.id, duration, "undefined", "success", autopilot),
                      "resolve", p.action, Settle(Fulfilled(ResolvedValue), FALSE))
       /\ promises' = RemoveAt(promises, i)
       /\ UNCHANGED <<sileo, sileoHist, ranBeforeHover, listeners, storePosition,
                      storeOptions, exitTimers, mounted, hoverRef>>

\* records created and updated with every autopilot and duration option
NextResolve ==
    \/ \E d \in DurationOptions, a \in AutopilotOptions :
          Create(Options(NoId, d, "undefined", "undefined", a))
    \/ Promise(FALSE)
    \/ \E i \in 1..Len(promises), d \in DurationOptions, a \in AutopilotOptions :
          ResolveWith(i, d, a)

SpecResolve == Init /\ [][NextResolve]_vars

(* ------------------------ the widget's swipe handlers --------------------- *)

SWIPE_DISMISS == 30
SWIPE_MAX == 20

Abs(n) == IF n < 0 THEN 0 - n ELSE n

\* clientY of the pointer events
PointerYs ==
    {0, SWIPE_MAX, SWIPE_DISMISS, SWIPE_DISMISS + 1, (SWIPE_DISMISS * 2) + 1,
     (SWIPE_DISMISS * 2) + 2}

\* the onDismiss and dismiss props: no callback, a callback, and a callback with
\* the dismiss flag set; and the flag set without a callback
SwipeProps ==
    {[onDismiss |-> FALSE, dismiss |-> FALSE], [onDismiss |-> TRUE, dismiss |-> FALSE],
     [onDismiss |-> TRUE, dismiss |-> TRUE], [onDismiss |-> FALSE, dismiss |-> TRUE]}

\* faulty variant of TapDismisses: the dismiss flag is not looked at
TapDismissesNever(w) == FALSE

\* handlePointerDown's `if (dismiss)`
TapDismisses(w) == w.dismiss

\* handlePointerDown: nothing on an exiting widget, without onDismiss, or on the
\* action button; with the dismiss flag onDismiss is called; else a drag starts
handlePointerDown(y, onButton) ==
    /\ sileo.mounted
    /\ onButton => hasDesc(sileo)
    /\ LET hist == [dy |-> 0, button |-> onButton, dragging |-> sileo.pointerStartRef # Null,
                    dismissed |-> FALSE]
       IN sileo' =
            IF sileo.exiting \/ ~sileo.onDismiss \/ onButton
            THEN [sileo EXCEPT !.swipeHist = hist]
            ELSE IF TapDismisses(sileo)
            THEN [sileo EXCEPT !.swipeHist = [hist EXCEPT !.dismissed = TRUE]]
            ELSE [sileo EXCEPT !.pointerStartRef = Num(y), !.listening = TRUE,
                               !.swipeHist = hist]
    /\ sileoHist' = [sileoHist EXCEPT !.op = "pointerDown"]
    /\ UNCHANGED storeVars

\* faulty variant of ClampOffset: the displacement is applied as it is
ClampOffsetNot(dy) == dy

\* onMove's Math.min(Math.abs(dy), SWIPE_MAX) * sign
ClampOffset(dy) == Min(Abs(dy), SWIPE_MAX) * (IF dy > 0 THEN 1 ELSE -1)

\* the pointermove listener
onMove(y) ==
    /\ sileo.listening
    /\ LET dy == y - sileo.pointerStartRef.val
           hist == [dy |-> dy, button |-> FALSE, dragging |-> sileo.pointerStartRef # Null,
                    dismissed |-> FALSE]
       IN sileo' = IF sileo.pointerStartRef = Null THEN [sileo EXCEPT !.swipeHist = hist]
                   ELSE [sileo EXCEPT !.translateY = ClampOffset(dy), !.swipeHist = hist]
    /\ sileoHist' = [sileoHist EXCEPT !.op = "pointerMove"]
    /\ UNCHANGED storeVars

\* faulty variant of SwipeDismisses: a release at the threshold dismisses too
SwipeDismissesAtThreshold(dy) == Abs(dy) >= SWIPE_DISMISS

\* onUp's Math.abs(dy) > SWIPE_DISMISS
SwipeDismisses(dy) == Abs(dy) > SWIPE_DISMISS

\* the pointerup listener
onUp(y) ==
    /\ sileo.listening
    /\ LET dy == y - sileo.pointerStartRef.val
           hist == [dy |-> dy, button |-> FALSE, dragging |-> sileo.pointerStartRef # Null,
                    dismissed |-> FALSE]
       IN sileo' = IF sileo.pointerStartRef = Null THEN [sileo EXCEPT !.swipeHist = hist]
                   ELSE [sileo EXCEPT !.pointerStartRef = Null, !.translateY = 0,
                                      !.listening = FALSE,
                                      !.swipeHist = [hist EXCEPT !.dismissed =
                                                       SwipeDismisses(dy) /\ sileo.onDismiss]]
    /\ sileoHist' = [sileoHist EXCEPT !.op = "pointerUp"]
    /\ UNCHANGED storeVars

\* the store is as Init leaves it, and a widget with a description and the swipe
\* props has mounted
InitSwipe ==
    /\ toasts = <<>>
    /\ listeners = {}
    /\ storePosition = "top-right"
    /\ storeOptions = [duration |-> Undef]
    /\ idCounter = 0
    /\ exitTimers = <<>>
    /\ mounted = FALSE
    /\ hoverRef = FALSE
    /\ timersRef = {}
    /\ listRef = <<>>
    /\ pointerOver = NoId
    /\ activeId = NoId
    /\ latestRef = NoId
    /\ promises = <<>>
    /\ lastOp = Op("init", NoId)
    /\ emitted = <<>>
    /\ dismissed = {}
    /\ quiet = NotQuiet
    /\ ranBeforeHover = {}
    /\ \E props \in SwipeProps :
          LET w == MountState(Payload("success", TRUE, ShortBody), NoDelays,
                              [canExpand |-> "undefined", interruptKey |-> NoId])
          IN sileo = [Render(w, Deps(w), TRUE) EXCEPT !.onDismiss = props.onDismiss,
                                                      !.dismiss = props.dismiss]
    /\ sileoHist = [op |-> "mount", staged |-> 0, hadPending |-> FALSE]

NextSwipe ==
    \/ \E y \in PointerYs, onButton \in BOOLEAN : handlePointerDown(y, onButton)
    \/ \E y \in PointerYs : onMove(y)
    \/ \E y \in PointerYs : onUp(y)
    \/ SileoExit

SpecSwipe == InitSwipe /\ [][NextSwipe]_vars

(* ------------------- a toast on autopilot, left untouched ----------------- *)

\* the autopilot option of the toast: none, an expand or a collapse delay of 0, and
\* both delays, the expand delay the shorter or the longer one
AutopilotConfigs ==
    {AutoUndef,
     AutoObject(Num(0), Undef),
     AutoObject(Undef, Num(0)),
     AutoObject(Num(SileoTimeStep * 2), Num(SileoTimeStep * 4)),
     AutoObject(Num(SileoTimeStep * 4), Num(SileoTimeStep * 2))}

\* positive durations of the toast: none (the default), and two short ones
AutopilotDurations == {Undef, Num(SileoTimeStep * 2), Num(SileoDuration)}

\* the Toaster is mounted and sileo.show has been called once, with a description:
\* the store holds the record, the Toaster has scheduled its dismiss timer, and the
\* widget of the record has mounted with the record's delays
InitAutopilot ==
    /\ storePosition = "top-right"
    /\ storeOptions = [duration |-> Undef]
    /\ idCounter = generateId(generateId(0))
    /\ \E a \in AutopilotConfigs, d \in AutopilotDurations :
          toasts = <<ToastItem(Options(NoId, d, "undefined", "success", a),
                               generateId(0), generateId(generateId(0)), "undefined")>>
    /\ listeners = {"Toaster"}
    /\ exitTimers = <<>>
    /\ mounted = TRUE
    /\ hoverRef = FALSE
    /\ timersRef = TimerEffect({}, toasts, FALSE)
    /\ listRef = toasts
    /\ pointerOver = NoId
    /\ activeId = latest(toasts)
    /\ latestRef = latest(toasts)
    /\ promises = <<>>
    /\ lastOp = [OpCall("create", toasts[1].id, NoId, FALSE, FALSE) EXCEPT !.before = 0]
    /\ emitted = emit(listeners, <<>>, toasts)
    /\ dismissed = {}
    /\ quiet = NotQuiet
    /\ ranBeforeHover = {}
    /\ LET w == MountState(Payload(toasts[1].state, TRUE, ShortBody),
                           [expandDelayMs |-> toasts[1].autoExpandDelayMs,
                            collapseDelayMs |-> toasts[1].autoCollapseDelayMs],
                           [canExpand |-> IF canExpand(activeId, toasts[1]) THEN "true"
                                          ELSE "false",
                            interruptKey |-> NoId])
       IN sileo = Render(w, Deps(w), TRUE)
    /\ sileoHist = [op |-> "mount", staged |-> 0, hadPending |-> FALSE]

\* SileoTimeStep milliseconds pass for the Toaster's dismiss timer and the widget's
\* timers, up to the time the dismiss timer is due
AutopilotTick ==
    /\ ~TimerDue
    /\ Num(0) \notin SileoTimers(sileo)
    /\ \E t \in timersRef : t.pending
    /\ timersRef' = {IF t.pending THEN [t EXCEPT !.left = t.left - SileoTimeStep] ELSE t :
                        t \in timersRef}
    /\ LET less(t) == IF t = Null THEN Null ELSE Num(t.val - SileoTimeStep)
       IN sileo' = [sileo EXCEPT !.swapTimerRef = less(@), !.autoExpandRef = less(@),
                                 !.autoCollapseRef = less(@), !.headerExitRef = less(@),
                                 !.opened = open(sileo)]
    /\ sileoHist' = [sileoHist EXCEPT !.op = "tick", !.hadPending = sileo.pendingRef.set]
    /\ UNCHANGED <<toasts, listeners, storePosition, storeOptions, idCounter, exitTimers,
                   mounted, hoverRef, listRef, pointerOver, activeId, latestRef, promises,
                   lastOp, emitted, dismissed, quiet, ranBeforeHover>>

NextAutopilot ==
    \/ AutoExpandFire
    \/ AutoCollapseFire
    \/ AutopilotTick

SpecAutopilot == InitAutopilot /\ [][NextAutopilot]_vars

(* ================================ claims ================================= *)

InstanceIds(s) == {s[i].instanceId : i \in 1..Len(s)}

\* the id has a live (non-exiting) record in the sequence
HasLive(s, id) == \E i \in 1..Len(s) : s[i].id = id /\ ~s[i].exiting

\* C1: after any sequence of create, update, dismiss and clear calls the store
\* holds at most one live (non-exiting) record per stable id.
OneLivePerId ==
    \A i, j \in 1..Len(toasts) :
        (i # j /\ toasts[i].id = toasts[j].id) => (toasts[i].exiting \/ toasts[j].exiting)

\* C1 witness: a create with the explicit id of a live record has just run, and the
\* store holds a live record of that id.
OneLivePerIdWitness ==
    /\ lastOp.op = "create"
    /\ lastOp.given # NoId
    /\ lastOp.hit
    /\ HasLive(toasts, lastOp.given)

\* a create step whose call gave no id, or an id that no live record had
CreateUnmatchedStep ==
    /\ lastOp'.op = "create"
    /\ (lastOp'.given = NoId \/ ~HasLive(toasts, lastOp'.given))

CreateReplacesInPlace ==
    [][(lastOp'.op = "create" /\ lastOp'.given # NoId /\ HasLive(toasts, lastOp'.given)) =>
         /\ Len(toasts') = Len(toasts)
         /\ \A i \in 1..Len(toasts) :
              (toasts[i].id = lastOp'.given /\ ~toasts[i].exiting) =>
                 /\ toasts'[i].id = toasts[i].id
                 /\ toasts'[i].instanceId # toasts[i].instanceId
                 /\ toasts'[i].instanceId \notin InstanceIds(toasts)
                 /\ ~toasts'[i].exiting]_vars

\* C3 witness: a create with the explicit id of a live record has run, the store
\* has the length it had, and the record of the id has the newest instance id.
CreateReplacesInPlaceWitness ==
    /\ lastOp.op = "create"
    /\ lastOp.given # NoId
    /\ lastOp.hit
    /\ Len(toasts) = lastOp.before
    /\ \E i \in 1..Len(toasts) :
         toasts[i].id = lastOp.given /\ toasts[i].instanceId = idCounter

\* C4 as stated: dismiss(id) on a live record sets its exiting flag in the same step,
\* the record staying in the store, and, absent an intervening create or clear, the
\* record is removed exactly EXIT_DURATION after the dismiss call: it is in the
\* store while less time has passed, and out of it once more has passed.
DismissRemovesAfterExitDuration ==
    /\ (lastOp.op = "dismiss" /\ lastOp.hit) =>
          \E i \in 1..Len(toasts) : toasts[i].id = lastOp.id /\ toasts[i].exiting
    /\ \A d \in dismissed :
          /\ d.elapsed < EXIT_DURATION => d.id \in Ids(toasts)
          /\ d.elapsed > EXIT_DURATION => d.id \notin Ids(toasts)

\* C5: dismiss(id) is a no-op when the id is not in the store or its record is
\* already exiting: the store sequence is unchanged, nothing is emitted to the
\* subscribers and no further removal timer is scheduled.
DismissIgnoredIsNoOp ==
    [][(/\ lastOp'.op = "dismiss"
        /\ \A i \in 1..Len(toasts) : toasts[i].id = lastOp'.given => toasts[i].exiting) =>
         /\ toasts' = toasts
         /\ emitted' = <<>>
         /\ exitTimers' = exitTimers
         /\ listRef' = listRef
         /\ timersRef' = timersRef]_vars

\* C5 witness: dismiss has run on the id of a record that was exiting already, its
\* removal timer pending, and the record is still there.
DismissIgnoredIsNoOpWitness ==
    /\ lastOp.op = "dismiss"
    /\ ~lastOp.hit
    /\ \E i \in 1..Len(toasts) : toasts[i].id = lastOp.given /\ toasts[i].exiting
    /\ Len(exitTimers) = 1
    /\ mounted

\* C6 as stated: with the Toaster mounted, no hover and no other call, a record
\* created with duration D > 0 is live until D ms after its creation, flagged
\* exiting from then on, and absent from the store after D + EXIT_DURATION.
AutoRemovedAfterDuration ==
    (quiet # NotQuiet /\ quiet.duration > 0) =>
        LET present == \E i \in 1..Len(toasts) : toasts[i].instanceId = quiet.instanceId
            exiting == \E i \in 1..Len(toasts) :
                          toasts[i].instanceId = quiet.instanceId /\ toasts[i].exiting
        IN /\ quiet.age < quiet.duration => (present /\ ~exiting)
           /\ (quiet.age > quiet.duration /\ quiet.age < quiet.duration + EXIT_DURATION)
                 => (present /\ exiting)
           /\ quiet.age > quiet.duration + EXIT_DURATION => ~present

\* C7 as stated: a record whose duration is null or 0 (the loading record of
\* promise() among them) never gets a dismiss timer and is never dismissed by one.
PersistentNeverTimed ==
    \A i \in 1..Len(toasts) :
        toasts[i].duration \in {Null, Num(0)} =>
            /\ ~\E t \in timersRef : <<t.id, t.instanceId>> = timeoutKey(toasts[i])
            /\ ~(lastOp.op = "dismissTimer" /\ lastOp.hit /\ lastOp.id = toasts[i].id)

\* C8: while the viewport is hovered no dismiss timer is pending and none fires:
\* mouse-enter cancels every pending dismiss timer, and none is scheduled for a
\* created or replaced notification until mouse-leave.
NoDismissTimerWhileHovered ==
    hoverRef =>
        /\ \A t \in timersRef : ~t.pending
        /\ lastOp.op # "dismissTimer"

\* C8 witness: the viewport is hovered and a record of positive duration has just
\* been created under the pointer.
NoDismissTimerWhileHoveredWitness ==
    /\ hoverRef
    /\ lastOp.op = "create"
    /\ \E i \in 1..Len(listRef) :
         /\ ~listRef[i].exiting
         /\ listRef[i].duration = Num(EXIT_DURATION)
         /\ listRef[i].id = pointerOver

\* the record has a positive duration: a positive number, or none and so the default
PositiveDuration(t) == t.duration.tag # "null" /\ FullDuration(t) > 0

\* C9: on mouse-leave every still-live (non-exiting) notification with positive
\* duration gets a new dismiss timer of its full duration, counted from the leave
\* event; the time that elapsed before the hover is not subtracted.
LeaveSchedulesFullDuration ==
    [][lastOp'.op = "mouseLeave" =>
         \A i \in 1..Len(toasts') :
            (~toasts'[i].exiting /\ PositiveDuration(toasts'[i])) =>
               \E t \in timersRef' :
                  /\ <<t.id, t.instanceId>> = timeoutKey(toasts'[i])
                  /\ t.pending
                  /\ t.left = FullDuration(toasts'[i])]_vars

\* C9 witness: the pointer has just left, and a live record whose timer had run in
\* part before the hover has a pending timer of its full duration.
LeaveSchedulesFullDurationWitness ==
    /\ lastOp.op = "mouseLeave"
    /\ \E i \in 1..Len(toasts) :
         /\ ~toasts[i].exiting
         /\ PositiveDuration(toasts[i])
         /\ toasts[i].instanceId \in ranBeforeHover
         /\ \E t \in timersRef :
              /\ <<t.id, t.instanceId>> = timeoutKey(toasts[i])
              /\ t.pending
              /\ t.left = FullDuration(toasts[i])

ReturnedPromiseSettlesAsInput ==
    lastOp.op \in {"resolve", "resolveThrow", "reject"} =>
        /\ lastOp.settle.returned = lastOp.settle.input
        /\ lastOp.settle.input =
              IF lastOp.op = "reject" THEN Rejected(RejectionReason)
              ELSE Fulfilled(ResolvedValue)

\* C12 witness: the input promise resolved, the option function threw, the record
\* was gone from the store, and the returned promise is fulfilled with the value.
ReturnedPromiseSettlesAsInputWitness ==
    /\ lastOp.op = "resolveThrow"
    /\ ~lastOp.hit
    /\ lastOp.settle.chain = Fulfilled(UndefinedValue)
    /\ lastOp.settle.returned = Fulfilled(ResolvedValue)

\* the step is a store mutation: a create, an update of a known id, an effective
\* dismiss, an exit removal or a clear
MutationStep ==
    \/ lastOp'.op \in {"create", "promise", "clear", "exitTimer"}
    \/ /\ lastOp'.op \in {"resolve", "resolveThrow", "reject", "dismiss", "dismissTimer"}
       /\ lastOp'.hit

\* C14: every store mutation calls every registered subscriber exactly once, within
\* the mutating step, with the full sequence as it is after that mutation; so the
\* sequence a subscriber was called with last is the sequence the store holds.
MutationNotifiesSubscribers ==
    [][/\ MutationStep =>
            /\ emitted' = [l \in listeners |-> <<toasts'>>]
            /\ "Toaster" \in listeners => listRef' = toasts'
       /\ "Toaster" \in listeners' => listRef' = toasts']_vars

\* C14 witness: an exit removal has just emptied the store with the Toaster
\* subscribed, and the Toaster was called once, with the empty sequence.
MutationNotifiesSubscribersWitness ==
    /\ lastOp.op = "exitTimer"
    /\ lastOp.before = 1
    /\ toasts = <<>>
    /\ listeners = {"Toaster"}
    /\ emitted = [l \in listeners |-> << <<>> >>]
    /\ listRef = <<>>

\* the step is an update call: a promise settled and its callback called updateToast
UpdateStep == lastOp'.op \in {"resolve", "resolveThrow", "reject"}

\* C13: update(id, options) for an id that is not in the store is ignored: the
\* store sequence is unchanged, no record is created and no subscriber is notified.
UpdateUnknownIsNoOp ==
    [][(UpdateStep /\ lastOp'.given \notin Ids(toasts)) =>
         /\ toasts' = toasts
         /\ emitted' = <<>>
         /\ listRef' = listRef
         /\ timersRef' = timersRef
         /\ idCounter' = idCounter]_vars

\* C13 witness: a promise has settled after the record of its id left the store,
\* with the Toaster subscribed, and the store holds the record of another id.
UpdateUnknownIsNoOpWitness ==
    /\ lastOp.op \in {"resolve", "resolveThrow", "reject"}
    /\ ~lastOp.hit
    /\ "Toaster" \in listeners
    /\ Len(toasts) = 1
    /\ lastOp.given \notin Ids(toasts)

\* C15: clear(position) removes at once, with no exiting phase, exactly the records
\* whose position equals the argument and leaves all other records unchanged and
\* in order; clear() without argument empties the store.
ClearRemovesPosition ==
    [][\A pos \in TwoClearInputs :
          Clear(pos) =>
             /\ pos = "undefined" => toasts' = <<>>
             /\ pos # "undefined" =>
                   toasts' = SelectSeq(toasts, LAMBDA t : t.position # pos)
             /\ exitTimers' = exitTimers
             /\ \A i \in 1..Len(toasts') : toasts'[i] \in {toasts[j] : j \in 1..Len(toasts)}]_vars

\* C15 witness: a clear has just run on a store that held one record, and the
\* record, at the position the call did not name, is still there.
ClearRemovesPositionWitness ==
    /\ lastOp.op = "clear"
    /\ lastOp.before = 1
    /\ Len(toasts) = 1
    /\ toasts[1].position = "top-left"
    /\ "Toaster" \in listeners

\* C16 as stated: at any time at most one dismiss timer is pending per
\* (stable id, instance id) pair, and only for records with positive duration: every
\* pending timer is the timer of an instance the Toaster still shows, so the timer
\* of a replaced instance is gone, and a new instance shown while the viewport is
\* not hovered has a timer of its own full duration.
OneTimerPerInstance ==
    /\ \A t, u \in timersRef :
          (t.pending /\ u.pending /\ t.id = u.id /\ t.instanceId = u.instanceId) => t = u
    /\ \A t \in timersRef :
          t.pending =>
             \E i \in 1..Len(listRef) :
                /\ timeoutKey(listRef[i]) = <<t.id, t.instanceId>>
                /\ PositiveDuration(listRef[i])
    /\ (lastOp.op \in {"create", "resolve", "resolveThrow", "reject"} /\ mounted /\ ~hoverRef) =>
          \A i \in 1..Len(listRef) :
             (listRef[i].id = lastOp.id /\ ~listRef[i].exiting /\ PositiveDuration(listRef[i])) =>
                \E t \in timersRef :
                   /\ <<t.id, t.instanceId>> = timeoutKey(listRef[i])
                   /\ t.pending
                   /\ t.left = FullDuration(listRef[i])

\* the records the Toaster shows that are not exiting and may expand
Expandable == {i \in 1..Len(listRef) : ~listRef[i].exiting /\ canExpand(activeId, listRef[i])}

\* the notification that owns the expansion: the hovered one while one is hovered,
\* otherwise the most recently created non-exiting one (NoId: none)
Designated == IF pointerOver # NoId THEN pointerOver ELSE latest(listRef)

\* C17: at any time at most one non-exiting notification in the store is permitted
\* to expand (canExpand true): the hovered notification while one is hovered,
\* otherwise the most recently created non-exiting one, which then is permitted.
AtMostOneExpandable ==
    mounted =>
        /\ listRef = toasts
        /\ Cardinality(Expandable) <= 1
        /\ \A i \in 1..Len(listRef) :
              ~listRef[i].exiting => (i \in Expandable <=> listRef[i].id = Designated)

\* C17 witness: a create with a new id replaced the record under the pointer, an
\* exiting one, while the viewport was hovered, and the new record may expand.
AtMostOneExpandableWitness ==
    /\ mounted
    /\ hoverRef
    /\ lastOp.op = "create"
    /\ lastOp.before = 1
    /\ pointerOver = NoId
    /\ Expandable = {1}
    /\ activeId = listRef[1].id

\* C18 as stated: while the widget is collapsed its expanded height keeps the value
\* it had when it was last open, whatever the measured content height becomes: a
\* step none of whose renders shows the widget open leaves it as it is; and
\* between the staging of a replacement that arrived while the widget was open and
\* its commit, the expanded height is never smaller than it was at the staging.
FrozenExpandedHeight ==
    [][/\ ~sileo'.opened => expanded(sileo') = expanded(sileo)
       /\ sileo'.pendingRef.set => expanded(sileo') >= sileoHist'.staged]_vars

\* C19 as stated: a content replacement that arrives while the widget is open is
\* staged: the view is kept, the widget is collapsed and the swap timer is set to
\* SWAP_COLLAPSE_MS; the widget is not open while a payload is pending; and the
\* swap timer or a transition-end event commits the payload to a collapsed widget.
StagedSwapWhileCollapsed ==
    [][/\ (sileoHist'.op = "refresh" /\ open(sileo)) =>
             /\ sileo'.pendingRef = Pending(sileo'.refreshKey, sileo'.next)
             /\ sileo'.view = sileo.view
             /\ sileo'.swapTimerRef = Num(SWAP_COLLAPSE_MS)
             /\ ~open(sileo')
       /\ sileo'.pendingRef.set => ~open(sileo')
       /\ (sileoHist'.op \in {"swapTimer", "transitionEnd"} /\ sileo'.view # sileo.view) =>
             ~open(sileo)]_vars

ExitTimerRemovesOnlyExiting ==
    [][lastOp'.op = "exitTimer" =>
         \A i \in 1..Len(toasts) :
            ~toasts[i].exiting => \E j \in 1..Len(toasts') : toasts'[j] = toasts[i]]_vars

\* C22: the store never holds more than one record: every create replaces the
\* whole sequence with the single new record, and a create without an id while a
\* record is live gives the new record that record's stable id and returns it, so
\* successive show calls return the same id.
StoreHoldsOneRecord ==
    [][/\ Len(toasts') <= 1
       /\ lastOp'.op \in {"create", "promise"} =>
             /\ Len(toasts') = 1
             /\ toasts'[1].instanceId \notin InstanceIds(toasts)
             /\ lastOp'.id = toasts'[1].id
             /\ (lastOp'.given = NoId /\ Live(toasts) # <<>>) =>
                   toasts'[1].id = Live(toasts)[Len(Live(toasts))].id]_vars

\* C22 witness: a create without an id has run while a record created without an id
\* was live, and the store holds one record, a new instance under the id of the old.
StoreHoldsOneRecordWitness ==
    /\ lastOp.op = "create"
    /\ lastOp.given = NoId
    /\ lastOp.hit
    /\ lastOp.before = 1
    /\ Len(toasts) = 1
    /\ toasts[1].id = lastOp.id
    /\ toasts[1].id \notin ExplicitIds
    /\ toasts[1].instanceId = idCounter
    /\ toasts[1].instanceId # toasts[1].id + 1

\* C23: hover-out, the firing of the auto-collapse timer, and the exiting flag
\* becoming set each bring the widget to the collapsed state: after the step the
\* widget is not open.
CollapseEvents ==
    [][sileoHist'.op \in {"leave", "autoCollapse", "exit"} =>
         /\ ~open(sileo')
         /\ ~sileo'.isExpanded \/ ~hasDesc(sileo')]_vars

\* C23 witness: the exiting flag has just been set on a widget that was open, its
\* pointer over it, and the widget is collapsed.
CollapseEventsWitness ==
    /\ sileoHist.op = "exit"
    /\ sileo.exiting
    /\ sileo.opened
    /\ sileo.pointer
    /\ hasDesc(sileo)
    /\ ~isLoading(sileo)
    /\ ~open(sileo)

\* C24: a content replacement (new refresh key) that arrives while the widget is
\* collapsed is committed to the view at once: after the step the view is the new
\* payload and the applied key the new key, nothing is staged and no swap timer is
\* pending, so a payload staged earlier is discarded in favour of the new one.
CollapsedRefreshCommitsAtOnce ==
    [][(sileoHist'.op = "refresh" /\ ~open(sileo)) =>
         /\ sileo'.view = sileo'.next
         /\ sileo'.applied = sileo'.refreshKey
         /\ sileo'.lastRefreshKeyRef = sileo'.refreshKey
         /\ sileo'.pendingRef = NoPending
         /\ sileo'.swapTimerRef = Null]_vars

\* C24 witness: a replacement has just arrived at a collapsed widget that had a
\* payload staged and its swap timer pending; the view is the new payload, which is
\* not the one that was staged, and nothing is pending.
CollapsedRefreshCommitsAtOnceWitness ==
    /\ sileoHist.op = "refresh"
    /\ sileoHist.hadPending
    /\ sileo.view = Payload("success", TRUE, TallBody)
    /\ sileo.view = sileo.next
    /\ sileo.applied = MaxRefreshKey
    /\ sileo.pendingRef = NoPending
    /\ sileo.swapTimerRef = Null

\* C25 as stated: if a hovered notification leaves the store (dismiss or clear)
\* without a mouse-leave event being delivered, the viewport's hover flag does not
\* stay set: the flag is set only while a widget is under the pointer, and while
\* none is, every live notification of positive duration the Toaster shows has a
\* pending dismiss timer.
HoverFlagFollowsPointer ==
    mounted =>
        /\ hoverRef => pointerOver # NoId
        /\ pointerOver = NoId =>
              \A i \in 1..Len(listRef) :
                 (~listRef[i].exiting /\ PositiveDuration(listRef[i])) =>
                    \E t \in timersRef :
                       /\ <<t.id, t.instanceId>> = timeoutKey(listRef[i])
                       /\ t.pending

\* C26 as stated: when the widget unmounts, none of the timers it started
\* (auto-expand, auto-collapse, staged-content-swap, header-crossfade-removal)
\* remains pending, so none of them fires after the unmount.
NoWidgetTimerAfterUnmount ==
    ~sileo.mounted =>
        /\ sileo.autoExpandRef = Null
        /\ sileo.autoCollapseRef = Null
        /\ sileo.headerExitRef = Null
        /\ sileo.swapTimerRef = Null
        /\ sileoHist.op \notin {"swapTimer", "headerExit", "autoExpand", "autoCollapse"}

\* C27: when the Toaster unmounts, every pending dismiss timer is cancelled and its
\* store subscription is removed: while no Toaster is mounted no dismiss timer is
\* pending, none fires, and the Toaster's listener is neither registered nor
\* called by a store mutation.
UnmountCancelsAll ==
    ~mounted =>
        /\ \A t \in timersRef : ~t.pending
        /\ lastOp.op # "dismissTimer"
        /\ "Toaster" \notin listeners
        /\ "Toaster" \notin DOMAIN emitted

\* C27 witness: the Toaster has just unmounted while a dismiss timer was pending
\* for a live record, which is still in the store, and no timer is left.
UnmountCancelsAllWitness ==
    /\ lastOp.op = "unmount"
    /\ lastOp.hit
    /\ ~mounted
    /\ timersRef = {}
    /\ listeners = {}
    /\ \E i \in 1..Len(toasts) : ~toasts[i].exiting /\ PositiveDuration(toasts[i])

\* C28 as stated: a widget whose exiting flag is set is never open: after the flag
\* is set, neither hover-in nor a pending auto-expand timer opens it again.
ExitingNeverOpen ==
    (sileo.mounted /\ sileo.exiting) =>
        /\ ~open(sileo)
        /\ sileo.autoExpandRef = Null

\* the widget is one the pointer may hold open: it has body content, is not
\* loading, is not exiting and is permitted to expand
Holdable(w) == hasDesc(w) /\ ~isLoading(w) /\ ~w.exiting /\ allowExpand(w)

\* C29 as stated: while the pointer stays over a widget that has body content, is
\* not loading and is permitted to expand, the widget stays open until hover-out:
\* no timer of the widget, the auto-collapse timer among them, collapses it during
\* the hover.
HoverHoldsOpen ==
    [][(/\ sileoHist'.op \in {"autoCollapse", "autoExpand", "swapTimer", "headerExit", "tick"}
        /\ sileo.pointer /\ sileo'.pointer
        /\ open(sileo)
        /\ Holdable(sileo) /\ Holdable(sileo')) => open(sileo')]_vars

\* the dismiss timer of the toast is due and every timer of the widget that was due
\* has fired: the time of the dismissal
AtDismissal(timers, w) ==
    /\ \E t \in timers : t.pending /\ t.left <= 0
    /\ Num(0) \notin SileoTimers(w)

\* C30 as stated: for every autopilot configuration and every positive duration the
\* auto-collapse timer never fires before the auto-expand timer, and a widget
\* opened by autopilot and left untouched is collapsed again by autopilot no later
\* than its dismissal: at the dismissal no timer of the widget is pending and the
\* widget is not open.
AutopilotCollapsesAfterExpand ==
    [][/\ sileoHist'.op = "autoCollapse" => sileo.autoExpandRef = Null
       /\ AtDismissal(timersRef', sileo') =>
             /\ SileoTimers(sileo') = {}
             /\ ~open(sileo')]_vars

\* C31: after any burst of content replacements on a mounted widget the committed
\* view is the payload of the most recent replacement once the pending timers have
\* run: the only payload ever staged is the most recent one, a staged payload has
\* its swap timer pending, and with nothing staged the view is the most recent
\* payload under the most recent key.
ViewSettlesOnLatest ==
    sileo.mounted =>
        /\ sileo.lastRefreshKeyRef = sileo.refreshKey
        /\ sileo.pendingRef.set =>
              /\ sileo.pendingRef = Pending(sileo.refreshKey, sileo.next)
              /\ sileo.swapTimerRef # Null
        /\ ~sileo.pendingRef.set =>
              /\ sileo.view = sileo.next
              /\ sileo.applied = sileo.refreshKey
              /\ sileo.swapTimerRef = Null

\* C31 witness: the swap timer has just committed the payload of the last of
\* several replacements, one that differs from the payload shown before.
ViewSettlesOnLatestWitness ==
    /\ sileo.mounted
    /\ sileoHist.op = "swapTimer"
    /\ sileoHist.hadPending
    /\ sileo.refreshKey = MaxRefreshKey
    /\ sileo.applied = MaxRefreshKey
    /\ sileo.view = Payload("success", TRUE, TallBody)
    /\ sileo.view = sileo.next
    /\ sileo.pendingRef = NoPending

\* C32: a drag released with a vertical displacement of more than SWIPE_DISMISS px
\* up or down calls onDismiss, a drag released at or under the threshold does not;
\* on every release the offset of the element returns to 0, the drag is over and
\* the listeners are removed; and the offset applied while dragging is the
\* displacement clamped to SWIPE_MAX px in either direction.
SwipeDismissesBeyondThreshold ==
    [][/\ (sileoHist'.op = "pointerUp" /\ sileo.pointerStartRef # Null) =>
             /\ sileo'.swipeHist.dismissed <=>
                   (sileo'.swipeHist.dy > SWIPE_DISMISS \/ sileo'.swipeHist.dy < 0 - SWIPE_DISMISS)
             /\ sileo'.translateY = 0
             /\ sileo'.pointerStartRef = Null
             /\ ~sileo'.listening
       /\ (sileoHist'.op = "pointerMove" /\ sileo.pointerStartRef # Null) =>
             sileo'.translateY =
                IF sileo'.swipeHist.dy > SWIPE_MAX THEN SWIPE_MAX
                ELSE IF sileo'.swipeHist.dy < 0 - SWIPE_MAX THEN 0 - SWIPE_MAX
                ELSE sileo'.swipeHist.dy
       /\ sileo'.translateY <= SWIPE_MAX
       /\ sileo'.translateY >= 0 - SWIPE_MAX
       /\ sileo'.pointerStartRef = Null => sileo'.translateY = 0]_vars

\* C32 witness: a drag has just been released one px beyond the threshold, upwards,
\* after a move had applied the largest offset, and onDismiss was called.
SwipeDismissesBeyondThresholdWitness ==
    /\ sileoHist.op = "pointerUp"
    /\ sileo.swipeHist.dragging
    /\ sileo.swipeHist.dy = 0 - (SWIPE_DISMISS + 1)
    /\ sileo.swipeHist.dismissed
    /\ sileo.translateY = 0
    /\ ~sileo.listening

ClampedTo(v, d) == IF v < 0 THEN 0 ELSE IF v > d THEN d ELSE v

\* a record that is to carry no delay: autopilot false, or a null, 0 or negative
\* duration
WithoutAutopilot(t) ==
    \/ t.autopilot.kind = "false"
    \/ t.duration = Null
    \/ t.duration.tag = "number" /\ t.duration.val <= 0

\* C34: a record created or updated with autopilot false, or with a duration that
\* is null, 0 or negative, carries no auto-expand and no auto-collapse delay; every
\* other record carries both, each the configured value (AUTO_EXPAND_DELAY and
\* AUTO_COLLAPSE_DELAY when not given) clamped to [0, duration], the duration being
\* DEFAULT_DURATION when none is given.
DelaysFollowOptions ==
    \A i \in 1..Len(toasts) :
        LET t == toasts[i]
            duration == IF t.duration.tag = "number" THEN t.duration.val
                        ELSE DEFAULT_DURATION
            expand == IF t.autopilot.expand.tag = "number" THEN t.autopilot.expand.val
                      ELSE AUTO_EXPAND_DELAY
            collapse == IF t.autopilot.collapse.tag = "number"
                        THEN t.autopilot.collapse.val ELSE AUTO_COLLAPSE_DELAY
        IN IF WithoutAutopilot(t)
           THEN t.autoExpandDelayMs = Undef /\ t.autoCollapseDelayMs = Undef
           ELSE /\ t.autoExpandDelayMs = Num(ClampedTo(expand, duration))
                /\ t.autoCollapseDelayMs = Num(ClampedTo(collapse, duration))

\* what holds of the delays of the records whose duration is not null
DelaysFollowOptionsButNull ==
    \A i \in 1..Len(toasts) :
        LET t == toasts[i]
            duration == IF t.duration.tag = "number" THEN t.duration.val
                        ELSE DEFAULT_DURATION
            expand == IF t.autopilot.expand.tag = "number" THEN t.autopilot.expand.val
                      ELSE AUTO_EXPAND_DELAY
            collapse == IF t.autopilot.collapse.tag = "number"
                        THEN t.autopilot.collapse.val ELSE AUTO_COLLAPSE_DELAY
        IN t.duration # Null =>
              IF WithoutAutopilot(t)
              THEN t.autoExpandDelayMs = Undef /\ t.autoCollapseDelayMs = Undef
              ELSE /\ t.autoExpandDelayMs = Num(ClampedTo(expand, duration))
                   /\ t.autoCollapseDelayMs = Num(ClampedTo(collapse, duration))

\* C35: for every measured content height and header width, the raw expanded
\* height is the larger of 2.25 x HEIGHT and HEIGHT + content height when the
\* widget has body content and 2.25 x HEIGHT otherwise; the resolved pill width is
\* never below HEIGHT (and is the measured width when that is HEIGHT or more); the
\* pill offset (here in half pixels) is 0 for left, leaves the same room on both
\* sides of the pill for center, and puts the pill's end at WIDTH for right.
DerivedGeometry ==
    sileo.mounted =>
        /\ hasDesc(sileo) =>
              /\ 4 * rawExpanded(sileo) >= 9 * HEIGHT
              /\ rawExpanded(sileo) >= HEIGHT + sileo.contentHeight
              /\ \/ 4 * rawExpanded(sileo) = 9 * HEIGHT
                 \/ rawExpanded(sileo) = HEIGHT + sileo.contentHeight
        /\ ~hasDesc(sileo) => 4 * rawExpanded(sileo) = 9 * HEIGHT
        /\ resolvedPillWidth(sileo) >= HEIGHT
        /\ sileo.pillWidth >= HEIGHT => resolvedPillWidth(sileo) = sileo.pillWidth
        /\ sileo.position = "left" => pillX(sileo) = 0
        /\ sileo.position = "center" =>
              pillX(sileo) + (2 * resolvedPillWidth(sileo)) + pillX(sileo) = 2 * WIDTH
        /\ sileo.position = "right" =>
              pillX(sileo) + (2 * resolvedPillWidth(sileo)) = 2 * WIDTH

\* C35 witness: a centred widget with body content whose content was measured
\* above the minimum and whose header was measured below HEIGHT and odd.
DerivedGeometryWitness ==
    /\ sileo.mounted /\ hasDesc(sileo)
    /\ sileoHist.op = "measureHeader"
    /\ sileo.position = "center"
    /\ sileo.contentHeight = minExpanded - HEIGHT + 1
    /\ rawExpanded(sileo) = minExpanded + 1
    /\ sileo.pillWidth = 5 + PILL_PADDING
    /\ resolvedPillWidth(sileo) = HEIGHT
    /\ pillX(sileo) = WIDTH - HEIGHT

====
